---- MODULE Spec2Model ----
(***************************************************************************)
(* Model of batch_pdf_processor_claude.py: the response splitter           *)
(* (parse_claude_response), the document assembler                         *)
(* (create_obsidian_document), the result loop (process_batch_results)     *)
(* and the command line driver (main).                                     *)
(*                                                                         *)
(* Texts are TLA+ strings handled character by character (Len, SubSeq,     *)
(* \o), with Python's 0-based offsets.  The TLA+ lexer cannot hold a       *)
(* backtick inside a string, so the character "~" stands for the backtick  *)
(* everywhere: "~~~yaml" is the fence-open marker, "~~~" the fence-close   *)
(* marker.                                                                 *)
(***************************************************************************)
EXTENDS Integers, Sequences, FiniteSets, TLC

(***************************************************************************)
(* Python string primitives                                                *)
(***************************************************************************)

\* s[a:b] for 0 <= a, with Python's clamping of b
Slice(s, a, b) == SubSeq(s, a + 1, IF b > Len(s) THEN Len(s) ELSE b)

\* str.find(sub, start): lowest 0-based index >= start, or -1
find(s, sub, start) ==
    LET last == Len(s) - Len(sub)
        At(i) == i > last \/ SubSeq(s, i + 1, i + Len(sub)) = sub
    IN  IF start > last THEN -1
        ELSE LET first == CHOOSE i \in start..(last + 1) :
                              At(i) /\ \A j \in start..(i - 1) : ~At(j)
             IN  IF first > last THEN -1 ELSE first

Whitespace == {" ", "\n", "\t"}

\* str.lstrip()
lstrip(s) ==
    LET Kept(i) == SubSeq(s, i, i) \notin Whitespace
    IN  IF \E i \in 1..Len(s) : Kept(i)
        THEN SubSeq(s, CHOOSE i \in 1..Len(s) : Kept(i) /\ \A j \in 1..(i - 1) : ~Kept(j),
                    Len(s))
        ELSE ""

\* str.rstrip()
rstrip(s) ==
    LET n == Len(s)
        Kept(k) == SubSeq(s, n - k, n - k) \notin Whitespace
    IN  IF \E k \in 0..(n - 1) : Kept(k)
        THEN SubSeq(s, 1,
                    n - (CHOOSE k \in 0..(n - 1) : Kept(k) /\ \A j \in 0..(k - 1) : ~Kept(j)))
        ELSE ""

\* str.strip()
strip(s) == rstrip(lstrip(s))

\* str.split("\n")
RECURSIVE SplitLines(_)
SplitLines(s) ==
    LET i == find(s, "\n", 0)
    IN  IF i = -1 THEN <<s>>
        ELSE <<Slice(s, 0, i)>> \o SplitLines(Slice(s, i + 1, Len(s)))

\* sep.join(parts)
RECURSIVE join(_, _)
join(sep, parts) ==
    IF Len(parts) = 0 THEN ""
    ELSE IF Len(parts) = 1 THEN parts[1]
    ELSE parts[1] \o sep \o join(sep, Tail(parts))

startswith(s, p) == Len(s) >= Len(p) /\ SubSeq(s, 1, Len(p)) = p

(***************************************************************************)
(* Python values: what yaml.safe_load returns and what the metadata        *)
(* mapping holds                                                           *)
(***************************************************************************)
PyNone == [kind |-> "null"]
PyStr(s) == [kind |-> "str", s |-> s]
PyList(items) == [kind |-> "list", items |-> items]
PyDict(m) == [kind |-> "map", m |-> m]
EmptyDict == PyDict(<<>>)
YAMLError == [kind |-> "error"]

(***************************************************************************)
(* yaml.safe_load, on the fragment of YAML the responses of this model     *)
(* use: block mappings "key: value" / "key:" followed by "- item" lines,   *)
(* block sequences of "- item" lines, plain and double-quoted scalars.     *)
(* An empty document loads as None; a "{" that is never closed is a        *)
(* syntax error (yaml.YAMLError).                                          *)
(***************************************************************************)
Unquote(s) ==
    IF Len(s) >= 2 /\ SubSeq(s, 1, 1) = "\"" /\ SubSeq(s, Len(s), Len(s)) = "\""
    THEN SubSeq(s, 2, Len(s) - 1)
    ELSE s

IsItemLine(l) == startswith(l, "- ") \/ startswith(l, "  - ")

ItemText(l) ==
    Unquote(strip(IF startswith(l, "- ") THEN Slice(l, 2, Len(l)) ELSE Slice(l, 4, Len(l))))

IsEntryLine(l) ==
    /\ ~startswith(l, " ")
    /\ ~startswith(l, "-")
    /\ LET p == find(l, ":", 0)
       IN  p > 0 /\ (p + 1 = Len(l) \/ SubSeq(l, p + 2, p + 2) = " ")

EntryKey(l) == Slice(l, 0, find(l, ":", 0))
EntryRest(l) == strip(Slice(l, find(l, ":", 0) + 1, Len(l)))

Flawed(l) == find(l, "{", 0) # -1

\* acc: the mapping built so far; cur: <<key>> while "- item" lines may
\* still extend the value of key, <<>> otherwise
RECURSIVE LoadMapping(_, _, _)
LoadMapping(lines, acc, cur) ==
    IF Len(lines) = 0 THEN PyDict(acc)
    ELSE LET l == Head(lines)
         IN  IF IsItemLine(l)
             THEN IF cur = <<>> THEN YAMLError
                  ELSE LET k == cur[1]
                           sofar == IF acc[k].kind = "list" THEN acc[k].items ELSE <<>>
                       IN  LoadMapping(Tail(lines),
                                       (k :> PyList(Append(sofar, ItemText(l)))) @@ acc,
                                       cur)
             ELSE IF IsEntryLine(l)
             THEN IF EntryRest(l) = ""
                  THEN LoadMapping(Tail(lines), (EntryKey(l) :> PyNone) @@ acc, <<EntryKey(l)>>)
                  ELSE LoadMapping(Tail(lines),
                                   (EntryKey(l) :> PyStr(Unquote(EntryRest(l)))) @@ acc,
                                   <<>>)
             ELSE YAMLError

yaml_safe_load(s) ==
    LET lines == SelectSeq(SplitLines(s), LAMBDA l : strip(l) # "")
        n == Len(lines)
    IN  IF n = 0 THEN PyNone
        ELSE IF \E i \in 1..n : Flawed(lines[i]) THEN YAMLError
        ELSE IF \A i \in 1..n : startswith(lines[i], "- ")
        THEN PyList([i \in 1..n |-> ItemText(lines[i])])
        ELSE IF IsEntryLine(lines[1]) THEN LoadMapping(lines, <<>>, <<>>)
        ELSE IF \A i \in 1..n : ~IsEntryLine(lines[i]) /\ ~IsItemLine(lines[i])
        THEN PyStr(Unquote(join(" ", [i \in 1..n |-> strip(lines[i])])))
        ELSE YAMLError

(***************************************************************************)
(* HistoricalDocumentProcessor.parse_claude_response                       *)
(***************************************************************************)
FenceOpen == "~~~yaml"
FenceClose == "~~~"

\* variant: the offsets skip the three fence characters only, not "yaml"
parse_claude_response_short_skip(response_text) ==
    LET yaml_start == find(response_text, FenceOpen, 0)
        yaml_end == find(response_text, FenceClose, yaml_start + 3)
    IN  IF yaml_start = -1 \/ yaml_end = -1
        THEN [metadata |-> EmptyDict, transcription |-> response_text]
        ELSE LET yaml_content == strip(Slice(response_text, yaml_start + 3, yaml_end))
                 loaded == yaml_safe_load(yaml_content)
             IN  [metadata |-> IF loaded = YAMLError THEN EmptyDict ELSE loaded,
                  transcription |-> strip(Slice(response_text, yaml_end + 3,
                                                Len(response_text)))]

\* variant: the fallback trims the text as the main path does
parse_claude_response_trim_fallback(response_text) ==
    LET yaml_start == find(response_text, FenceOpen, 0)
        yaml_end == find(response_text, FenceClose, yaml_start + 7)
    IN  IF yaml_start = -1 \/ yaml_end = -1
        THEN [metadata |-> EmptyDict, transcription |-> strip(response_text)]
        ELSE LET yaml_content == strip(Slice(response_text, yaml_start + 7, yaml_end))
                 loaded == yaml_safe_load(yaml_content)
             IN  [metadata |-> IF loaded = YAMLError THEN EmptyDict ELSE loaded,
                  transcription |-> strip(Slice(response_text, yaml_end + 3,
                                                Len(response_text)))]

\* variant: no "except yaml.YAMLError", the failed load comes out as it is
parse_claude_response_no_except(response_text) ==
    LET yaml_start == find(response_text, FenceOpen, 0)
        yaml_end == find(response_text, FenceClose, yaml_start + 7)
    IN  IF yaml_start = -1 \/ yaml_end = -1
        THEN [metadata |-> EmptyDict, transcription |-> response_text]
        ELSE LET yaml_content == strip(Slice(response_text, yaml_start + 7, yaml_end))
                 loaded == yaml_safe_load(yaml_content)
             IN  [metadata |-> loaded,
                  transcription |-> strip(Slice(response_text, yaml_end + 3,
                                                Len(response_text)))]

\* variant: the text before the open marker is put in front of the body
parse_claude_response_keep_preamble(response_text) ==
    LET yaml_start == find(response_text, FenceOpen, 0)
        yaml_end == find(response_text, FenceClose, yaml_start + 7)
    IN  IF yaml_start = -1 \/ yaml_end = -1
        THEN [metadata |-> EmptyDict, transcription |-> response_text]
        ELSE LET yaml_content == strip(Slice(response_text, yaml_start + 7, yaml_end))
                 loaded == yaml_safe_load(yaml_content)
             IN  [metadata |-> IF loaded = YAMLError THEN EmptyDict ELSE loaded,
                  transcription |-> strip(Slice(response_text, 0, yaml_start)
                                          \o Slice(response_text, yaml_end + 3,
                                                   Len(response_text)))]

\* variant: the body stops where a further fenced block opens
parse_claude_response_body_to_next_block(response_text) ==
    LET yaml_start == find(response_text, FenceOpen, 0)
        yaml_end == find(response_text, FenceClose, yaml_start + 7)
    IN  IF yaml_start = -1 \/ yaml_end = -1
        THEN [metadata |-> EmptyDict, transcription |-> response_text]
        ELSE LET yaml_content == strip(Slice(response_text, yaml_start + 7, yaml_end))
                 loaded == yaml_safe_load(yaml_content)
                 rest == Slice(response_text, yaml_end + 3, Len(response_text))
                 next_block == find(rest, FenceOpen, 0)
             IN  [metadata |-> IF loaded = YAMLError THEN EmptyDict ELSE loaded,
                  transcription |-> strip(IF next_block = -1 THEN rest
                                          ELSE Slice(rest, 0, next_block))]

parse_claude_response(response_text) ==
    LET yaml_start == find(response_text, FenceOpen, 0)
        yaml_end == find(response_text, FenceClose, yaml_start + 7)
    IN  IF yaml_start = -1 \/ yaml_end = -1
        THEN [metadata |-> EmptyDict, transcription |-> response_text]
        ELSE LET yaml_content == strip(Slice(response_text, yaml_start + 7, yaml_end))
                 loaded == yaml_safe_load(yaml_content)
             IN  [metadata |-> IF loaded = YAMLError THEN EmptyDict ELSE loaded,
                  transcription |-> strip(Slice(response_text, yaml_end + 3,
                                                Len(response_text)))]

(***************************************************************************)
(* Python semantics used by create_obsidian_document                       *)
(***************************************************************************)
\* dict.get(key, default)
get(metadata, key, default) ==
    IF key \in DOMAIN metadata.m THEN metadata.m[key] ELSE default

\* truth value of v in "if v"
Truthy(v) ==
    CASE v.kind = "str" -> v.s # ""
      [] v.kind = "list" -> v.items # <<>>
      [] OTHER -> FALSE

\* repr() of a list of strings
PyRepr(items) ==
    "[" \o join(", ", [i \in 1..Len(items) |-> "'" \o items[i] \o "'"]) \o "]"

\* str(v) as an f-string formats it
Format(v) ==
    CASE v.kind = "str" -> v.s
      [] v.kind = "list" -> PyRepr(v.items)
      [] OTHER -> "None"

\* the elements "for x in v" visits: a list's items, a string's characters
Elements(v) ==
    CASE v.kind = "list" -> v.items
      [] v.kind = "str" -> [i \in 1..Len(v.s) |-> SubSeq(v.s, i, i)]
      [] OTHER -> <<>>

\* variant: only the first element gets a line
ItemLines_first_only(v) ==
    IF Truthy(v)
    THEN <<"  - " \o Elements(v)[1]>>
    ELSE <<>>

\* lines 362-382: the indented lines under a sequence-valued key
ItemLines(v) ==
    IF Truthy(v)
    THEN [i \in 1..Len(Elements(v)) |-> "  - " \o Elements(v)[i]]
    ELSE <<>>

(***************************************************************************)
(* HistoricalDocumentProcessor.create_obsidian_document: the text handed   *)
(* to output_path.write_text, or the AttributeError of metadata.get when   *)
(* metadata is not a mapping.  added is datetime.now() as strftime         *)
(* formatted it.                                                           *)
(***************************************************************************)
\* variant: a scalar key gets a line only when the metadata holds it
scalar_lines_present_only(metadata) ==
    LET line(k) == IF k \in DOMAIN metadata.m
                   THEN <<k \o ": " \o Format(metadata.m[k])>>
                   ELSE <<>>
    IN  line("title") \o line("creator") \o line("publication")
        \o line("source") \o line("date")

\* lines 353-357: the lines of the five scalar keys
scalar_lines(metadata) ==
    LET title == get(metadata, "title", PyStr(""))
        creator == get(metadata, "creator", PyStr(""))
        publication == get(metadata, "publication", PyStr(""))
        source == get(metadata, "source", PyStr(""))
        date == get(metadata, "date", PyStr(""))
    IN  << "title: " \o Format(title),
           IF Truthy(creator) THEN "creator: " \o Format(creator) ELSE "creator:",
           IF Truthy(publication) THEN "publication: " \o Format(publication)
                                  ELSE "publication:",
           "source: " \o Format(source),
           IF Truthy(date) THEN "date: " \o Format(date) ELSE "date:" >>

frontmatter_lines(metadata, added) ==
    LET people == get(metadata, "people", PyList(<<>>))
        organization == get(metadata, "organization", PyList(<<>>))
        locations == get(metadata, "locations", PyList(<<>>))
        themes == get(metadata, "themes", PyList(<<>>))
    IN  <<"---">>
        \o scalar_lines(metadata)
        \o <<"people:">>
        \o ItemLines(people)
        \o <<"organization:">>
        \o ItemLines(organization)
        \o <<"locations:">>
        \o ItemLines(locations)
        \o <<"themes:">>
        \o ItemLines(themes)
        \o << "tags:",
              "  - to-do",
              "  - source/primary",
              "added: " \o added,
              "---\n" >>

\* variant: the Notes section is written before the Images section
create_obsidian_document_notes_first(metadata, transcription, pdf_filename, added) ==
    IF metadata.kind # "map" THEN [raised |-> "AttributeError"]
    ELSE LET overview == get(metadata, "overview", PyStr(""))
             content_parts ==
                 << join("\n", frontmatter_lines(metadata, added)),
                    "## Overview\n",
                    IF Truthy(overview) THEN Format(overview) \o "\n" ELSE "\n",
                    "## Notes\n\n",
                    "## Images\n",
                    "![[" \o pdf_filename \o "]]\n",
                    "## Connections\n\n",
                    "## Transcription\n",
                    transcription >>
         IN  [raised |-> "", text |-> join("\n", content_parts)]

create_obsidian_document(metadata, transcription, pdf_filename, added) ==
    IF metadata.kind # "map" THEN [raised |-> "AttributeError"]
    ELSE LET overview == get(metadata, "overview", PyStr(""))
             content_parts ==
                 << join("\n", frontmatter_lines(metadata, added)),
                    "## Overview\n",
                    IF Truthy(overview) THEN Format(overview) \o "\n" ELSE "\n",
                    "## Images\n",
                    "![[" \o pdf_filename \o "]]\n",
                    "## Notes\n\n",
                    "## Connections\n\n",
                    "## Transcription\n",
                    transcription >>
         IN  [raised |-> "", text |-> join("\n", content_parts)]

(***************************************************************************)
(* parse_source_from_path.  A pathlib path is its anchor ("/" for an        *)
(* absolute path, "" for a relative one) and the names after it, the last  *)
(* one being the file.                                                     *)
(***************************************************************************)
\* Path.parts: the anchor, when there is one, counts as the first part
parts_of(path) ==
    (IF path.anchor = "" THEN <<>> ELSE <<path.anchor>>) \o path.names

\* Path.parent
parent_of(path) ==
    IF path.names = <<>> THEN path
    ELSE [anchor |-> path.anchor, names |-> SubSeq(path.names, 1, Len(path.names) - 1)]

\* str(path)
str_of(path) ==
    IF path.names = <<>>
    THEN (IF path.anchor = "" THEN "." ELSE path.anchor)
    ELSE path.anchor \o join("/", path.names)

\* variant: the label lists the farthest directory first
parse_source_from_path_farthest_first(path) ==
    LET parts == parts_of(path)
        n == Len(parts)
    IN  IF n < 5 THEN str_of(parent_of(path))
        ELSE parts[n - 4] \o ", " \o parts[n - 3] \o ", " \o parts[n - 2]
             \o ", " \o parts[n - 1]

parse_source_from_path(path) ==
    LET parts == parts_of(path)
        n == Len(parts)
    IN  IF n < 5 THEN str_of(parent_of(path))
        ELSE LET folder == parts[n - 1]
                 box == parts[n - 2]
                 collection == parts[n - 3]
                 archive == parts[n - 4]
             IN  folder \o ", " \o box \o ", " \o collection \o ", " \o archive

(***************************************************************************)
(* State                                                                   *)
(***************************************************************************)
VARIABLES
    src_path,           \* argument of a direct call of parse_source_from_path
    source,             \* its return value
    response,           \* argument of a direct call of parse_claude_response
    parsed,             \* its return value
    doc_args,           \* arguments of a direct call of create_obsidian_document
    document,           \* its outcome
    pc,                 \* position of main
    api_key,            \* TRUE iff --api-key or ANTHROPIC_API_KEY is set
    input_exists,       \* args.input.exists()
    pdf_files,          \* list(args.input.rglob("*.pdf"))
    exit_status,        \* process exit status, -1 while running
    requests,           \* the list prepare_batch_requests builds
    submitted,          \* the request lists handed to batches.create
    processing_status,  \* the external batch's processing_status
    service_results,    \* the per-request outcomes the service holds
    results,            \* the list get_batch_results returns
    res_i,              \* 0-based position of process_batch_results in results
    succeeded,
    failed,
    out_files,          \* output directory: file name -> text
    unwritable,         \* identifiers whose output file the file system refuses
    today,              \* datetime.now().strftime('%B %d, %Y')
    batch               \* the batch object of the latest batches.retrieve

sourceVars == <<src_path, source>>
splitVars == <<response, parsed>>
renderVars == <<doc_args, document>>
runVars == <<pc, api_key, input_exists, pdf_files, exit_status, requests, submitted,
             processing_status, service_results, results, res_i,
             succeeded, failed, out_files, unwritable, today, batch>>
vars == <<src_path, source, response, parsed, doc_args, document, pc, api_key, input_exists,
          pdf_files, exit_status, requests, submitted, processing_status,
          service_results, results, res_i, succeeded, failed,
          out_files, unwritable, today, batch>>

NotCalled == [called |-> FALSE]
NoBatch == [processing_status |-> "none"]

(***************************************************************************)
(* Bounds and input samples                                                *)
(***************************************************************************)
MaxBlocks == 2      \* fenced segments in a generated response text
MaxItems == 2       \* elements of a generated people list
MaxFiles == 2       \* input files of a run
MaxDepth == 5       \* directories above the file in a generated path

Prefixes == {"", "Here:\n", " ~"}
Opens == {FenceOpen, FenceClose}
Blocks == {"", "\n  \n", "\ntitle: Letter\npeople:\n  - \"[[Jane Doe]]\"\n",
           "\n- one\n", "\njust text\n", "\ntitle: {\n"}
Closes == {FenceClose, ""}
Rests == {"", "\n Body text \n", "Dear Sir"}

Segments == {o \o b \o c \o r : o \in Opens, b \in Blocks, c \in Closes, r \in Rests}

\* what may follow the first segment: a further block, a stray close marker,
\* an open marker that is never closed
Followers == {FenceOpen \o "\ntitle: Memo\n" \o FenceClose \o "\nmore\n",
              FenceClose \o "\n Body text \n",
              FenceOpen \o "\njust text\n"}

RECURSIVE Tails(_)
Tails(n) ==
    IF n = 0 THEN {""}
    ELSE {""} \cup {g \o t : g \in Followers, t \in Tails(n - 1)}

\* texts of at most n segments
Texts(n) ==
    IF n = 0 THEN {""}
    ELSE {""} \cup {g \o t : g \in Segments, t \in Tails(n - 1)}

Responses == {p \o t : p \in Prefixes, t \in Texts(MaxBlocks)}

Dates == {"April 05, 2025", "November 03, 2026"}

RECURSIVE SeqsUpTo(_, _)
SeqsUpTo(S, n) ==
    IF n = 0 THEN {<<>>}
    ELSE SeqsUpTo(S, n - 1) \cup
         {Append(q, x) : q \in {r \in SeqsUpTo(S, n - 1) : Len(r) = n - 1}, x \in S}

\* for one key: leave it out, or bind it to one of the values
Entry(key, values) == {<<>>} \cup {key :> v : v \in values}

\* a people list is the first n of these names, n up to MaxItems
Names == <<"[[Jane Doe]]", "[[Bo]]", "[[Cy Poe]]", "[[Di]]">>

Metadatas ==
    { PyDict(t @@ c @@ p @@ s @@ d @@ pe @@ o @@ l @@ th @@ ov) :
        t \in Entry("title", {PyStr("Letter")}),
        c \in Entry("creator", {PyStr("[[Ann]]")}),
        p \in Entry("publication", {PyStr("Gazette")}),
        s \in Entry("source", {PyStr("F1, B2, Coll, Arch")}),
        d \in Entry("date", {PyStr("1900-01-02")}),
        pe \in Entry("people", {PyList(SubSeq(Names, 1, n)) : n \in 0..MaxItems}),
        o \in Entry("organization", {PyList(<<>>), PyList(<<"[[Org]]">>)}),
        l \in Entry("locations", {PyList(<<"[[Here]]", "[[There]]">>)}),
        th \in Entry("themes", {PyList(<<"[[War]]">>)}),
        ov \in Entry("overview", {PyStr("A letter.")}) }

Bodies == {"", "<!-- page 1 -->\nDear Sir"}

(***************************************************************************)
(* Direct calls of the two pure routines                                   *)
(***************************************************************************)
NoPath == [anchor |-> "", names |-> <<>>]
SourceIdle == src_path = NoPath /\ source = NotCalled

RunIdle ==
    /\ pc = "idle" /\ api_key = FALSE /\ input_exists = FALSE /\ pdf_files = <<>>
    /\ exit_status = -1 /\ requests = <<>> /\ submitted = <<>>
    /\ processing_status = "none" /\ service_results = <<>>
    /\ results = <<>> /\ res_i = 0
    /\ succeeded = 0 /\ failed = 0 /\ out_files = <<>> /\ unwritable = {}
    /\ today = "April 05, 2025"
    /\ batch = NoBatch

InitSplit ==
    /\ response \in Responses
    /\ parsed = NotCalled
    /\ doc_args = NotCalled /\ document = NotCalled
    /\ SourceIdle
    /\ RunIdle

CallParse ==
    /\ parsed = NotCalled
    /\ response \in Responses
    /\ parsed' = [called |-> TRUE] @@ parse_claude_response(response)
    /\ UNCHANGED <<response, doc_args, document>>
    /\ UNCHANGED sourceVars
    /\ UNCHANGED runVars

NextSplit == CallParse

SplitSpec == InitSplit /\ [][NextSplit]_vars

InitRender ==
    /\ doc_args \in [metadata : Metadatas \cup {PyNone}, transcription : Bodies,
                     pdf_filename : {"doc1.pdf"}, added : Dates]
    /\ document = NotCalled
    /\ response = "" /\ parsed = NotCalled
    /\ SourceIdle
    /\ RunIdle

CallRender ==
    /\ document = NotCalled
    /\ doc_args # NotCalled
    /\ document' = [called |-> TRUE] @@
                   create_obsidian_document(doc_args.metadata, doc_args.transcription,
                                            doc_args.pdf_filename, doc_args.added)
    /\ UNCHANGED <<response, parsed, doc_args>>
    /\ UNCHANGED sourceVars
    /\ UNCHANGED runVars

NextRender == CallRender

RenderSpec == InitRender /\ [][NextRender]_vars

DirNames == {"root", "Archive", "Collection", "Box1", "FolderA"}

Paths == {[anchor |-> a, names |-> Append(d, "doc.pdf")] :
            a \in {"/", ""}, d \in SeqsUpTo(DirNames, MaxDepth)}

InitSource ==
    /\ src_path \in Paths
    /\ source = NotCalled
    /\ response = "" /\ parsed = NotCalled
    /\ doc_args = NotCalled /\ document = NotCalled
    /\ RunIdle

CallSource ==
    /\ source = NotCalled
    /\ src_path \in Paths
    /\ source' = [called |-> TRUE, label |-> parse_source_from_path(src_path)]
    /\ UNCHANGED <<src_path, response, parsed, doc_args, document>>
    /\ UNCHANGED runVars

NextSource == CallSource

SourceSpec == InitSource /\ [][NextSource]_vars

(***************************************************************************)
(* Inputs of a run                                                         *)
(***************************************************************************)
FileNames == {"letter.pdf", "memo.pdf"}

\* str.rfind(sub): highest 0-based index, or -1
rfind(s, sub) ==
    LET hits == {i \in 0..(Len(s) - Len(sub)) : SubSeq(s, i + 1, i + Len(sub)) = sub}
    IN  IF hits = {} THEN -1 ELSE CHOOSE i \in hits : \A j \in hits : j <= i

\* variant: the identifier is the whole file name
stem_whole_name(name) == name

\* Path.stem: the name without its last suffix
stem(name) ==
    LET i == rfind(name, ".")
    IN  IF 0 < i /\ i < Len(name) - 1 THEN Slice(name, 0, i) ELSE name

Stems == {stem(n) : n \in FileNames}

\* an input file: its base name, and whether open() succeeds
PdfFiles == [name : FileNames, readable : BOOLEAN]

TextBlock(t) == [type |-> "text", text |-> t]
OtherBlock == [type |-> "thinking"]

SampleResponses ==
    { "No metadata here.\n",
      "~~~yaml\ntitle: Letter\npeople:\n  - \"[[Jane Doe]]\"\noverview: A letter.\n~~~\n\nDear Sir\n",
      "~~~yaml\n~~~\nDear Sir",
      "~~~yaml\njust text\n~~~\nDear Sir",
      "~~~yaml\ntitle: {\n~~~\nDear Sir" }

\* message['content'] of a succeeded result
Contents ==
    {<<>>, <<OtherBlock>>}
    \cup {<<TextBlock(t)>> : t \in SampleResponses}
    \cup {<<TextBlock("~~~yaml\ntitle: Memo\n"), OtherBlock, TextBlock("~~~\nText")>>}

\* the outcomes the service can hold for the request tagged id
ResultsFor(id) ==
    {[custom_id |-> id, type |-> "succeeded", content |-> c] : c \in Contents}
    \cup {[custom_id |-> id, type |-> ty, content |-> <<>>] :
            ty \in {"errored", "canceled", "expired"}}

(***************************************************************************)
(* main                                                                    *)
(***************************************************************************)
Init ==
    /\ response = "" /\ parsed = NotCalled
    /\ doc_args = NotCalled /\ document = NotCalled
    /\ SourceIdle
    /\ pc = "start"
    /\ api_key \in BOOLEAN
    /\ input_exists \in BOOLEAN
    /\ pdf_files \in SeqsUpTo(PdfFiles, MaxFiles)
    /\ (~input_exists => pdf_files = <<>>)
    /\ exit_status = -1
    /\ requests = <<>> /\ submitted = <<>>
    /\ processing_status = "none" /\ service_results = <<>>
    /\ results = <<>> /\ res_i = 0 /\ succeeded = 0 /\ failed = 0
    /\ out_files = <<>>
    /\ unwritable \in {{}, {"memo"}}
    /\ today \in {"April 05, 2025"}
    /\ batch = NoBatch

pureVars == <<src_path, source, response, parsed, doc_args, document>>

\* variant: the existence of the input directory is not checked
CheckArgs_no_exists_check ==
    /\ pc = "start"
    /\ IF ~api_key
       THEN pc' = "exited" /\ exit_status' = 2
       ELSE IF pdf_files = <<>>
       THEN pc' = "exited" /\ exit_status' = 0
       ELSE pc' = "prepare" /\ UNCHANGED exit_status
    /\ UNCHANGED <<api_key, input_exists, pdf_files, requests, submitted,
                   processing_status, service_results, results, res_i,
                   succeeded, failed, out_files, unwritable, today, batch>>
    /\ UNCHANGED pureVars

\* main, lines 531-547: the three startup checks
CheckArgs ==
    /\ pc = "start"
    /\ IF ~api_key \/ ~input_exists
       THEN pc' = "exited" /\ exit_status' = 2           \* parser.error
       ELSE IF pdf_files = <<>>
       THEN pc' = "exited" /\ exit_status' = 0           \* print, return
       ELSE pc' = "prepare" /\ UNCHANGED exit_status
    /\ UNCHANGED <<api_key, input_exists, pdf_files, requests, submitted,
                   processing_status, service_results, results, res_i,
                   succeeded, failed, out_files, unwritable, today, batch>>
    /\ UNCHANGED pureVars

\* prepare_batch_requests: one iteration of its loop.  encode_pdf's open()
\* raises for an unreadable file and nothing up to main catches it.
PrepareRequest ==
    /\ pc = "prepare"
    /\ Len(requests) < Len(pdf_files)
    /\ LET pdf_path == pdf_files[Len(requests) + 1]
       IN  IF ~pdf_path.readable
           THEN pc' = "exited" /\ exit_status' = 1 /\ UNCHANGED requests
           ELSE /\ requests' = Append(requests, [custom_id |-> stem(pdf_path.name)])
                /\ UNCHANGED <<pc, exit_status>>
    /\ UNCHANGED <<api_key, input_exists, pdf_files, submitted,
                   processing_status, service_results, results, res_i,
                   succeeded, failed, out_files, unwritable, today, batch>>
    /\ UNCHANGED pureVars

\* variant: the batch is submitted as soon as one request is built
SubmitBatch_early ==
    /\ pc = "prepare"
    /\ Len(requests) >= 1
    /\ submitted' = Append(submitted, requests)
    /\ processing_status' = "in_progress"
    /\ pc' = "poll"
    /\ UNCHANGED <<api_key, input_exists, pdf_files, exit_status, requests,
                   service_results, results, res_i,
                   succeeded, failed, out_files, unwritable, today, batch>>
    /\ UNCHANGED pureVars

\* submit_batch_job
SubmitBatch ==
    /\ pc = "prepare"
    /\ Len(requests) = Len(pdf_files)
    /\ submitted' = Append(submitted, requests)
    /\ processing_status' = "in_progress"
    /\ pc' = "poll"
    /\ UNCHANGED <<api_key, input_exists, pdf_files, exit_status, requests,
                   service_results, results, res_i,
                   succeeded, failed, out_files, unwritable, today, batch>>
    /\ UNCHANGED pureVars

\* the batch is being canceled at the service: a status that is not "ended"
ServiceCanceling ==
    /\ processing_status = "in_progress"
    /\ processing_status' = "canceling"
    /\ UNCHANGED <<pc, api_key, input_exists, pdf_files, exit_status, requests, submitted,
                   service_results, results, res_i,
                   succeeded, failed, out_files, unwritable, today, batch>>
    /\ UNCHANGED pureVars

\* the external service finishes the batch: one outcome per request
ServiceEnds ==
    /\ processing_status \in {"in_progress", "canceling"}
    /\ processing_status' = "ended"
    /\ \E rs \in [1..Len(requests) -> UNION {ResultsFor(id) : id \in Stems}] :
          /\ \A i \in 1..Len(requests) : rs[i] \in ResultsFor(requests[i].custom_id)
          /\ service_results' = rs
    /\ UNCHANGED <<pc, api_key, input_exists, pdf_files, exit_status, requests, submitted,
                   results, res_i,
                   succeeded, failed, out_files, unwritable, today, batch>>
    /\ UNCHANGED pureVars

\* variant: the loop returns after the first retrieve whatever the status
Poll_return_any ==
    /\ pc = "poll"
    /\ batch' = [processing_status |-> processing_status]
    /\ pc' = "fetch"
    /\ UNCHANGED <<api_key, input_exists, pdf_files, exit_status, requests, submitted,
                   processing_status, service_results, results, res_i,
                   succeeded, failed, out_files, unwritable, today>>
    /\ UNCHANGED pureVars

\* variant: a poll that does not see "ended" gives up and ends the run
Poll_gives_up ==
    /\ pc = "poll"
    /\ batch' = [processing_status |-> processing_status]
    /\ IF processing_status = "ended"
       THEN pc' = "fetch" /\ UNCHANGED exit_status
       ELSE pc' = "exited" /\ exit_status' = 1
    /\ UNCHANGED <<api_key, input_exists, pdf_files, requests, submitted,
                   processing_status, service_results, results, res_i,
                   succeeded, failed, out_files, unwritable, today>>
    /\ UNCHANGED pureVars

\* wait_for_batch_completion: retrieve the batch and test its status; with
\* "ended" the function returns the retrieved batch
Poll ==
    /\ pc = "poll"
    /\ batch' = [processing_status |-> processing_status]
    /\ pc' = IF processing_status = "ended" THEN "fetch" ELSE "sleep"
    /\ UNCHANGED <<api_key, input_exists, pdf_files, exit_status, requests, submitted,
                   processing_status, service_results, results, res_i,
                   succeeded, failed, out_files, unwritable, today>>
    /\ UNCHANGED pureVars

\* wait_for_batch_completion: time.sleep(check_interval)
Sleep ==
    /\ pc = "sleep"
    /\ pc' = "poll"
    /\ UNCHANGED <<api_key, input_exists, pdf_files, exit_status, requests, submitted,
                   processing_status, service_results, results, res_i,
                   succeeded, failed, out_files, unwritable, today, batch>>
    /\ UNCHANGED pureVars

\* get_batch_results, then the head of process_batch_results
FetchResults ==
    /\ pc = "fetch"
    /\ results' = service_results
    /\ res_i' = 0 /\ succeeded' = 0 /\ failed' = 0
    /\ pc' = "process"
    /\ UNCHANGED <<api_key, input_exists, pdf_files, exit_status, requests, submitted,
                   processing_status, service_results,
                   out_files, unwritable, today, batch>>
    /\ UNCHANGED pureVars

(***************************************************************************)
(* process_batch_results                                                   *)
(***************************************************************************)
\* lines 442-445: the text blocks of content, concatenated in order
RECURSIVE ResponseText(_)
ResponseText(content) ==
    IF Len(content) = 0 THEN ""
    ELSE (IF Head(content).type = "text" THEN Head(content).text ELSE "")
         \o ResponseText(Tail(content))

\* variant: a succeeded result without content is skipped without counting
ProcessItem_empty_uncounted(result, cannot_write, added) ==
    LET custom_id == result.custom_id
        nothing == [counted |-> "failed", written |-> <<>>]
    IN  IF result.type = "succeeded"
        THEN IF result.content = <<>>
             THEN [counted |-> "none", written |-> <<>>]
             ELSE LET p == parse_claude_response(ResponseText(result.content))
                      doc == create_obsidian_document(p.metadata, p.transcription,
                                                      custom_id \o ".pdf", added)
                  IN  IF doc.raised # "" \/ custom_id \in cannot_write
                      THEN nothing
                      ELSE [counted |-> "succeeded",
                            written |-> (custom_id \o ".md") :> doc.text]
        ELSE nothing

\* variant: content without a text block is counted as failed
ProcessItem_no_text_fails(result, cannot_write, added) ==
    LET custom_id == result.custom_id
        nothing == [counted |-> "failed", written |-> <<>>]
    IN  IF result.type = "succeeded"
        THEN IF result.content = <<>> \/ ResponseText(result.content) = ""
             THEN nothing
             ELSE LET p == parse_claude_response(ResponseText(result.content))
                      doc == create_obsidian_document(p.metadata, p.transcription,
                                                      custom_id \o ".pdf", added)
                  IN  IF doc.raised # "" \/ custom_id \in cannot_write
                      THEN nothing
                      ELSE [counted |-> "succeeded",
                            written |-> (custom_id \o ".md") :> doc.text]
        ELSE nothing

\* variant: the output file is named by the identifier alone
ProcessItem_no_extension(result, cannot_write, added) ==
    LET custom_id == result.custom_id
        nothing == [counted |-> "failed", written |-> <<>>]
    IN  IF result.type = "succeeded"
        THEN IF result.content = <<>>
             THEN nothing
             ELSE LET p == parse_claude_response(ResponseText(result.content))
                      doc == create_obsidian_document(p.metadata, p.transcription,
                                                      custom_id \o ".pdf", added)
                  IN  IF doc.raised # "" \/ custom_id \in cannot_write
                      THEN nothing
                      ELSE [counted |-> "succeeded", written |-> custom_id :> doc.text]
        ELSE nothing

\* lines 428-466, the body of the loop for one result: which counter it
\* increments and the file it writes (<<>> for none).  cannot_write holds the
\* identifiers for which output_path.write_text raises.
ProcessItem(result, cannot_write, added) ==
    LET custom_id == result.custom_id
        nothing == [counted |-> "failed", written |-> <<>>]
    IN  IF result.type = "succeeded"
        THEN IF result.content = <<>>
             THEN nothing                                  \* "No content"
             ELSE LET p == parse_claude_response(ResponseText(result.content))
                      doc == create_obsidian_document(p.metadata, p.transcription,
                                                      custom_id \o ".pdf", added)
                  IN  IF doc.raised # "" \/ custom_id \in cannot_write
                      THEN nothing                         \* except Exception
                      ELSE [counted |-> "succeeded",
                            written |-> (custom_id \o ".md") :> doc.text]
        ELSE nothing                                       \* errored, or any other type

\* variant: a result that is not succeeded ends the loop
ProcessResult_stop_at_failure ==
    /\ pc = "process"
    /\ res_i < Len(results)
    /\ LET o == ProcessItem(results[res_i + 1], unwritable, today)
       IN  /\ succeeded' = succeeded + (IF o.counted = "succeeded" THEN 1 ELSE 0)
           /\ failed' = failed + (IF o.counted = "failed" THEN 1 ELSE 0)
           /\ out_files' = o.written @@ out_files
    /\ res_i' = IF results[res_i + 1].type = "succeeded" THEN res_i + 1 ELSE Len(results)
    /\ UNCHANGED <<pc, api_key, input_exists, pdf_files, exit_status, requests, submitted,
                   processing_status, service_results, results,
                   unwritable, today, batch>>
    /\ UNCHANGED pureVars

\* variant: a file that exists already is not written again
ProcessResult_keep_existing ==
    /\ pc = "process"
    /\ res_i < Len(results)
    /\ LET o == ProcessItem(results[res_i + 1], unwritable, today)
       IN  /\ succeeded' = succeeded + (IF o.counted = "succeeded" THEN 1 ELSE 0)
           /\ failed' = failed + (IF o.counted = "failed" THEN 1 ELSE 0)
           /\ out_files' = out_files @@ o.written
    /\ res_i' = res_i + 1
    /\ UNCHANGED <<pc, api_key, input_exists, pdf_files, exit_status, requests, submitted,
                   processing_status, service_results, results,
                   unwritable, today, batch>>
    /\ UNCHANGED pureVars

\* process_batch_results: one iteration of "for result in results"
ProcessResult ==
    /\ pc = "process"
    /\ res_i < Len(results)
    /\ LET o == ProcessItem(results[res_i + 1], unwritable, today)
       IN  /\ succeeded' = succeeded + (IF o.counted = "succeeded" THEN 1 ELSE 0)
           /\ failed' = failed + (IF o.counted = "failed" THEN 1 ELSE 0)
           /\ out_files' = o.written @@ out_files
    /\ res_i' = res_i + 1
    /\ UNCHANGED <<pc, api_key, input_exists, pdf_files, exit_status, requests, submitted,
                   processing_status, service_results, results,
                   unwritable, today, batch>>
    /\ UNCHANGED pureVars

\* variant: a run that ends with failed items submits its requests again
Finish_resubmit_failed ==
    /\ pc = "process"
    /\ res_i = Len(results)
    /\ pc' = "exited"
    /\ exit_status' = 0
    /\ submitted' = IF failed > 0 THEN Append(submitted, requests) ELSE submitted
    /\ UNCHANGED <<api_key, input_exists, pdf_files, requests,
                   processing_status, service_results, results, res_i,
                   succeeded, failed, out_files, unwritable, today, batch>>
    /\ UNCHANGED pureVars

\* the loop is exhausted: process_batch_results prints the counters and
\* returns, main prints the summary and ends
Finish ==
    /\ pc = "process"
    /\ res_i = Len(results)
    /\ pc' = "exited"
    /\ exit_status' = 0
    /\ UNCHANGED <<api_key, input_exists, pdf_files, requests, submitted,
                   processing_status, service_results, results, res_i,
                   succeeded, failed, out_files, unwritable, today, batch>>
    /\ UNCHANGED pureVars

Next ==
    \/ CheckArgs
    \/ PrepareRequest
    \/ SubmitBatch
    \/ ServiceCanceling
    \/ ServiceEnds
    \/ Poll
    \/ Sleep
    \/ FetchResults
    \/ ProcessResult
    \/ Finish

Spec == Init /\ [][Next]_vars

\* the run as a process that keeps taking its next step: the poll and the
\* wait of wait_for_batch_completion are never delayed for ever.  Nothing is
\* assumed of the service.
LiveSpec == Spec /\ WF_vars(Poll) /\ WF_vars(Sleep)

(***************************************************************************)
(* Properties of parse_claude_response, stated on the text itself          *)
(***************************************************************************)
\* sub occurs in t at 0-based offset i
Occurs(t, sub, i) ==
    i >= 0 /\ i + Len(sub) <= Len(t) /\ SubSeq(t, i + 1, i + Len(sub)) = sub

Least(S) == CHOOSE i \in S : \A j \in S : i <= j

\* where the first fence-open marker starts and where the first fence-close
\* marker that starts after the whole open marker starts
Markers(t) ==
    LET opens == {i \in 0..Len(t) : Occurs(t, FenceOpen, i)}
    IN  IF opens = {} THEN [open |-> -1, close |-> -1]
        ELSE LET o == Least(opens)
                 closes == {j \in (o + Len(FenceOpen))..Len(t) : Occurs(t, FenceClose, j)}
             IN  [open |-> o, close |-> IF closes = {} THEN -1 ELSE Least(closes)]

\* the text holds a fence-open marker followed later by a fence-close marker
Fenced(t) == Markers(t).open # -1 /\ Markers(t).close # -1

\* the characters strictly between the two markers, and those after the close
Between(t) ==
    LET m == Markers(t) IN SubSeq(t, m.open + Len(FenceOpen) + 1, m.close)
AfterClose(t) ==
    LET m == Markers(t) IN SubSeq(t, m.close + Len(FenceClose) + 1, Len(t))

AllWhitespace(s) == \A i \in 1..Len(s) : SubSeq(s, i, i) \in Whitespace

\* b is s without its leading and trailing whitespace
IsTrimmed(b, s) ==
    /\ Len(b) > 0 => /\ SubSeq(b, 1, 1) \notin Whitespace
                     /\ SubSeq(b, Len(b), Len(b)) \notin Whitespace
    /\ \E a \in 0..Len(s) :
          /\ a + Len(b) <= Len(s)
          /\ SubSeq(s, a + 1, a + Len(b)) = b
          /\ AllWhitespace(SubSeq(s, 1, a))
          /\ AllWhitespace(SubSeq(s, a + Len(b) + 1, Len(s)))

\* what the block between the markers decodes to
Decoded(t) == yaml_safe_load(strip(Between(t)))

\* C1: when the response holds the fence-open marker followed later by a
\* fence-close marker, the returned metadata is the decoded content of the
\* text strictly between the two markers (whenever it decodes), and the
\* returned body is exactly the text after the close marker with its leading
\* and trailing whitespace removed.
C1_FencedSplit ==
    (parsed.called /\ Fenced(response)) =>
        /\ Decoded(response) # YAMLError => parsed.metadata = Decoded(response)
        /\ IsTrimmed(parsed.transcription, AfterClose(response))

C1_Witness ==
    /\ parsed.called
    /\ Fenced(response)
    /\ Markers(response).open > 0
    /\ parsed.metadata.kind = "map"
    /\ "people" \in DOMAIN parsed.metadata.m
    /\ parsed.transcription = "Body text"
    /\ AfterClose(response) # parsed.transcription

\* C2 as stated: without the fence-open marker or the fence-close marker after
\* it, the metadata is empty and the body is the whole text trimmed of leading
\* and trailing whitespace.
C2_FallbackTrimmed ==
    (parsed.called /\ ~Fenced(response)) =>
        /\ parsed.metadata = EmptyDict
        /\ IsTrimmed(parsed.transcription, response)

\* C2 amended: without the fence-open marker or the fence-close marker after
\* it, the metadata is empty and the body is the whole input text, unchanged
\* (its leading and trailing whitespace included).
C2_FallbackWhole ==
    (parsed.called /\ ~Fenced(response)) =>
        /\ parsed.metadata = EmptyDict
        /\ parsed.transcription = response

C2_Witness ==
    /\ parsed.called
    /\ ~Fenced(response)
    /\ Markers(response).open # -1
    /\ SubSeq(response, Len(response), Len(response)) = "\n"
    /\ parsed.transcription = response

\* C4: when both markers are present and the block between them fails to
\* decode, the decode error does not come out of parse_claude_response: the
\* metadata is the empty mapping and the body is the trimmed text after the
\* close marker.
C4_DecodeFailureContained ==
    (parsed.called /\ Fenced(response) /\ Decoded(response) = YAMLError) =>
        /\ parsed.metadata = EmptyDict
        /\ IsTrimmed(parsed.transcription, AfterClose(response))

C4_Witness ==
    /\ parsed.called
    /\ Fenced(response)
    /\ Decoded(response) = YAMLError
    /\ parsed.metadata = EmptyDict
    /\ parsed.transcription = "Body text"

\* the text holds a fenced block and, after its close marker, a further one
SeveralBlocks(t) == Fenced(t) /\ Fenced(AfterClose(t))

\* C18: when the response holds several fenced blocks, the metadata comes from
\* the first block alone (the empty mapping when that block fails to decode),
\* and the body is the whole text after the first close marker, trimmed at
\* its two ends only: the further block is still in it, markers and content.
C18_FirstBlockOnly ==
    (parsed.called /\ SeveralBlocks(response)) =>
        /\ parsed.metadata = (IF Decoded(response) = YAMLError THEN EmptyDict
                              ELSE Decoded(response))
        /\ IsTrimmed(parsed.transcription, AfterClose(response))
        /\ Fenced(parsed.transcription)
        /\ Between(parsed.transcription) = Between(AfterClose(response))
        /\ AfterClose(parsed.transcription) = rstrip(AfterClose(AfterClose(response)))

C18_Witness ==
    /\ parsed.called
    /\ SeveralBlocks(response)
    /\ parsed.metadata.kind = "map"
    /\ DOMAIN parsed.metadata.m = {"title", "people"}
    /\ parsed.transcription = "Body text \n~~~yaml\ntitle: Memo\n~~~\nmore"

\* the text from its first fence-open marker on
FromOpen(t) == SubSeq(t, Markers(t).open + 1, Len(t))

\* C21: when both markers are present the result is that of the text from
\* the open marker on: the metadata is the decoded block (the empty mapping
\* when it fails to decode) and the body is a trimmed piece of what follows
\* the close marker, so nothing that precedes the open marker is in either;
\* without both markers the body is the whole text, what precedes included.
C21_PreambleDropped ==
    parsed.called =>
        IF Fenced(response)
        THEN LET kept == FromOpen(response)
             IN  /\ Fenced(kept) /\ Markers(kept).open = 0
                 /\ parsed.metadata = (IF Decoded(kept) = YAMLError THEN EmptyDict
                                       ELSE Decoded(kept))
                 /\ IsTrimmed(parsed.transcription, AfterClose(kept))
                 /\ Len(parsed.transcription) + Markers(response).close + Len(FenceClose)
                        <= Len(response)
        ELSE parsed.transcription = response

C21_Witness ==
    /\ parsed.called
    /\ Fenced(response)
    /\ startswith(response, "Here:\n~~~yaml")
    /\ parsed.metadata.kind = "map"
    /\ parsed.transcription = "Dear Sir"

(***************************************************************************)
(* Properties of create_obsidian_document, stated on the written text      *)
(***************************************************************************)
\* the lines of the header block: those between the opening "---" line and
\* the next "---" line
RECURSIVE LinesToRule(_)
LinesToRule(rest) ==
    LET i == find(rest, "\n", 0)
        l == IF i = -1 THEN rest ELSE Slice(rest, 0, i)
    IN  IF l = "---" \/ i = -1 THEN <<>>
        ELSE <<l>> \o LinesToRule(Slice(rest, i + 1, Len(rest)))

HeaderOf(text) ==
    IF startswith(text, "---\n") THEN LinesToRule(Slice(text, 4, Len(text))) ELSE <<>>

IsIndented(l) == Len(l) > 0 /\ SubSeq(l, 1, 1) = " "
Colon(l) == Least({i \in 1..Len(l) : SubSeq(l, i, i) = ":"})

\* the header read as its key lines, each with the text after its colon and
\* the indented lines directly under it
RECURSIVE Grouped(_, _)
Grouped(h, acc) ==
    IF Len(h) = 0 THEN acc
    ELSE LET l == Head(h)
             n == Len(acc)
         IN  IF ~IsIndented(l)
             THEN Grouped(Tail(h), Append(acc, [key |-> SubSeq(l, 1, Colon(l) - 1),
                                                value |-> SubSeq(l, Colon(l) + 1, Len(l)),
                                                under |-> <<>>]))
             ELSE IF n = 0 THEN Grouped(Tail(h), acc)
             ELSE Grouped(Tail(h), [acc EXCEPT ![n].under = Append(@, l)])

HeaderEntries(text) == Grouped(HeaderOf(text), <<>>)

KeysOf(E) == [i \in 1..Len(E) |-> E[i].key]
HasKey(E, k) == \E i \in 1..Len(E) : E[i].key = k
EntryOf(E, k) == E[CHOOSE i \in 1..Len(E) : E[i].key = k]

ScalarKeys == {"title", "creator", "publication", "source", "date"}

Rendered == document.called /\ doc_args.metadata.kind = "map"

\* C5 as stated: the header holds every key exactly once in the order title,
\* creator, publication, source, date, people, organizations, locations,
\* themes, then the tag list and the timestamp; an absent scalar key is
\* emitted with an empty value.
C5_HeaderKeysStated ==
    Rendered =>
        /\ document.raised = ""
        /\ LET E == HeaderEntries(document.text)
           IN  /\ KeysOf(E) = <<"title", "creator", "publication", "source", "date",
                               "people", "organizations", "locations", "themes",
                               "tags", "added">>
               /\ \A k \in ScalarKeys \ DOMAIN doc_args.metadata.m :
                      AllWhitespace(EntryOf(E, k).value)

\* C5 amended: the header holds every key exactly once in the order title,
\* creator, publication, source, date, people, organization, locations,
\* themes, then the fixed tag list (to-do, source/primary) and the timestamp;
\* an absent scalar key is emitted with an empty value.
C5_HeaderKeys ==
    Rendered =>
        /\ document.raised = ""
        /\ LET E == HeaderEntries(document.text)
           IN  /\ KeysOf(E) = <<"title", "creator", "publication", "source", "date",
                               "people", "organization", "locations", "themes",
                               "tags", "added">>
               /\ \A k \in ScalarKeys \ DOMAIN doc_args.metadata.m :
                      AllWhitespace(EntryOf(E, k).value)
               /\ EntryOf(E, "tags").under = <<"  - to-do", "  - source/primary">>
               /\ EntryOf(E, "added").value = " " \o doc_args.added

C5_Witness ==
    /\ Rendered
    /\ document.raised = ""
    /\ DOMAIN doc_args.metadata.m = {"title"}
    /\ LET E == HeaderEntries(document.text)
       IN  /\ EntryOf(E, "title").value = " Letter"
           /\ EntryOf(E, "creator").value = ""

\* the item lines a sequence value must produce
ExpectedItems(k) ==
    IF k \in DOMAIN doc_args.metadata.m
    THEN [i \in 1..Len(doc_args.metadata.m[k].items) |->
             "  - " \o doc_args.metadata.m[k].items[i]]
    ELSE <<>>

IsSequenceOrAbsent(k) ==
    k \in DOMAIN doc_args.metadata.m => doc_args.metadata.m[k].kind = "list"

\* C6 as stated: under the line of each of the keys people, organizations,
\* locations, themes there are no indented lines when the value is an empty
\* sequence or absent, and otherwise one "  - <element>" line per element in
\* the sequence's order.
C6_SequenceLinesStated ==
    Rendered =>
        LET E == HeaderEntries(document.text)
        IN  \A k \in {"people", "organizations", "locations", "themes"} :
                IsSequenceOrAbsent(k) =>
                    HasKey(E, k) /\ EntryOf(E, k).under = ExpectedItems(k)

\* C6 amended: under the line of each of the keys people, organization,
\* locations, themes there are no indented lines when the value is an empty
\* sequence or absent, and otherwise one "  - <element>" line per element in
\* the sequence's order.
C6_SequenceLines ==
    Rendered =>
        LET E == HeaderEntries(document.text)
        IN  \A k \in {"people", "organization", "locations", "themes"} :
                IsSequenceOrAbsent(k) =>
                    HasKey(E, k) /\ EntryOf(E, k).under = ExpectedItems(k)

C6_Witness ==
    /\ Rendered
    /\ document.raised = ""
    /\ "people" \in DOMAIN doc_args.metadata.m
    /\ doc_args.metadata.m["people"] = PyList(<<"[[Jane Doe]]", "[[Bo]]">>)
    /\ "organization" \in DOMAIN doc_args.metadata.m
    /\ doc_args.metadata.m["organization"] = PyList(<<>>)
    /\ "themes" \notin DOMAIN doc_args.metadata.m
    /\ LET E == HeaderEntries(document.text)
       IN  /\ EntryOf(E, "people").under = <<"  - [[Jane Doe]]", "  - [[Bo]]">>
           /\ EntryOf(E, "organization").under = <<>>
           /\ EntryOf(E, "themes").under = <<>>

(***************************************************************************)
(* Properties of a run                                                     *)
(***************************************************************************)
FileOf(r) == r.custom_id \o ".md"

\* the run went through process_batch_results and ended
RanToEnd == pc = "exited" /\ exit_status = 0 /\ submitted # <<>>

\* result r is succeeded, carries content, and its text has no fenced block
\* or a fenced block that does not decode to a mapping
MalformedItem(r) ==
    /\ r.type = "succeeded"
    /\ r.content # <<>>
    /\ LET t == ResponseText(r.content)
       IN  ~Fenced(t) \/ Decoded(t).kind # "map"

\* C3: a succeeded item whose response text is malformed (no fenced block,
\* or a block that does not decode to a mapping: undecodable, empty, a bare
\* scalar, a list) still gets its output document written and is counted as
\* succeeded, not failed.
C3_MalformedStillWritten ==
    /\ \A i \in 1..res_i :
          (MalformedItem(results[i]) /\ results[i].custom_id \notin unwritable)
              => FileOf(results[i]) \in DOMAIN out_files
    /\ (RanToEnd /\ \A i \in 1..Len(results) :
                       MalformedItem(results[i]) /\ results[i].custom_id \notin unwritable)
          => (failed = 0 /\ succeeded = Len(results))

\* C7: after process_batch_results has run over N results of any mix of
\* outcomes, every result was visited once and counted in exactly one of the
\* two counters: succeeded + failed = N (and, inside the loop, the number of
\* results visited so far).
C7_CountersSumToN ==
    /\ pc = "process" => succeeded + failed = res_i
    /\ RanToEnd => /\ res_i = Len(results)
                   /\ Len(results) = Len(pdf_files)
                   /\ succeeded + failed = Len(results)

C7_Witness ==
    /\ RanToEnd
    /\ Len(results) = 2
    /\ results[1].type = "succeeded" /\ results[1].content = <<>>
    /\ results[2].type = "succeeded" /\ FileOf(results[2]) \in DOMAIN out_files
    /\ succeeded = 1
    /\ failed = 1

FailureTypes == {"errored", "canceled", "expired"}

\* result r is succeeded with content that assembles: its text does not hold
\* a fenced block decoding to a non-mapping, and its file can be written
AssemblesItem(r) ==
    /\ r.type = "succeeded"
    /\ r.content # <<>>
    /\ LET t == ResponseText(r.content)
       IN  Fenced(t) => Decoded(t).kind \in {"map", "error"}
    /\ r.custom_id \notin unwritable

\* C8: the loop step on a result whose outcome is errored, canceled or
\* expired writes no file, increments only the failed counter and moves on
\* to the next result; and when the run has ended, every succeeded result
\* with assembling content that came after such a result has its output file.
C8_FailedItemStep ==
    (pc = "process" /\ res_i < Len(results) /\ results[res_i + 1].type \in FailureTypes)
        => /\ out_files' = out_files
           /\ failed' = failed + 1
           /\ succeeded' = succeeded
           /\ res_i' = res_i + 1
           /\ pc' = "process"

C8_LaterItemsWritten ==
    RanToEnd =>
        \A i \in 1..Len(results) : \A j \in (i + 1)..Len(results) :
            (results[i].type \in FailureTypes /\ AssemblesItem(results[j]))
                => FileOf(results[j]) \in DOMAIN out_files

C8_FailureDoesNotAbort == [][C8_FailedItemStep]_vars /\ []C8_LaterItemsWritten

C8_Witness ==
    /\ RanToEnd
    /\ Len(results) = 2
    /\ results[1].type = "errored" /\ results[1].custom_id = "letter"
    /\ AssemblesItem(results[2]) /\ results[2].custom_id = "memo"
    /\ DOMAIN out_files = {"memo.md"}
    /\ failed = 1
    /\ succeeded = 1

\* C9: when one input file cannot be read while others can, only that item
\* is lost: the requests of the readable files are still built and submitted
\* and the run goes on.
C9_UnreadableFileSkipped ==
    (/\ pc = "exited"
     /\ api_key /\ input_exists
     /\ \E i \in 1..Len(pdf_files) : pdf_files[i].readable
     /\ \E i \in 1..Len(pdf_files) : ~pdf_files[i].readable)
        => /\ Len(submitted) = 1
           /\ \A i \in 1..Len(pdf_files) :
                 pdf_files[i].readable =>
                     \E k \in 1..Len(submitted[1]) :
                         submitted[1][k].custom_id = stem(pdf_files[i].name)

StartupFailure == ~api_key \/ ~input_exists \/ pdf_files = <<>>

\* C10 as stated: with the credential missing, the input directory missing,
\* or no matching input file, no batch is submitted and the exit status is
\* non-zero.
C10_StartupExitsNonZero ==
    StartupFailure => /\ submitted = <<>>
                      /\ pc \in {"start", "exited"}
                      /\ pc = "exited" => exit_status > 0

\* C10 amended: in each of the three startup cases no batch is submitted;
\* the exit status is non-zero when the credential is missing or the input
\* directory does not exist, and zero (a message is printed and main
\* returns) when the directory holds no matching input file.
C10_StartupExits ==
    StartupFailure => /\ submitted = <<>>
                      /\ pc \in {"start", "exited"}
                      /\ (pc = "exited" /\ (~api_key \/ ~input_exists)) => exit_status > 0
                      /\ (pc = "exited" /\ api_key /\ input_exists) => exit_status = 0

C10_Witness ==
    /\ pc = "exited"
    /\ api_key /\ input_exists /\ pdf_files = <<>>
    /\ exit_status = 0
    /\ submitted = <<>>

\* the results visited so far that assemble
Assembled == {i \in 1..res_i : AssemblesItem(results[i])}

InOrAfterLoop == pc = "process" \/ RanToEnd

\* C12 as stated: after process_batch_results on a fresh output directory the
\* number of output files equals the succeeded counter.
C12_FilesEqualSucceeded ==
    RanToEnd => Cardinality(DOMAIN out_files) = succeeded

\* C12 amended: the succeeded counter is the number of assembled items, the
\* output files are exactly the files "<identifier>.md" of the assembled
\* items, and when the identifiers of the assembled items are pairwise
\* distinct the number of output files equals the succeeded counter.
C12_FilePerIdentifier ==
    InOrAfterLoop =>
        LET A == Assembled
        IN  /\ succeeded = Cardinality(A)
            /\ DOMAIN out_files = {FileOf(results[i]) : i \in A}
            /\ (\A i, j \in A : i # j => results[i].custom_id # results[j].custom_id)
                  => Cardinality(DOMAIN out_files) = succeeded

C12_Witness ==
    /\ RanToEnd
    /\ Len(results) = 2
    /\ Assembled = {1, 2}
    /\ results[1].custom_id # results[2].custom_id
    /\ DOMAIN out_files = {"letter.md", "memo.md"}
    /\ succeeded = 2

\* the base names of the input files are pairwise distinct
DistinctNames ==
    \A i, j \in 1..Len(pdf_files) : i # j => pdf_files[i].name # pdf_files[j].name

\* C13: the request list holds one request for each input file read so far, in
\* input order, each tagged with the file's base name less its ".pdf"; the
\* list handed to the service holds one request per input file; and with
\* pairwise distinct base names the identifiers are pairwise distinct.
C13_RequestPerFile ==
    /\ Len(requests) <= Len(pdf_files)
    /\ \A i \in 1..Len(requests) : requests[i].custom_id \o ".pdf" = pdf_files[i].name
    /\ \A b \in 1..Len(submitted) :
          /\ Len(submitted[b]) = Len(pdf_files)
          /\ submitted[b] = requests
          /\ DistinctNames =>
                \A i, j \in 1..Len(submitted[b]) :
                    i # j => submitted[b][i].custom_id # submitted[b][j].custom_id

C13_Witness ==
    /\ Len(submitted) = 1
    /\ pdf_files = << [name |-> "memo.pdf", readable |-> TRUE],
                      [name |-> "letter.pdf", readable |-> TRUE] >>
    /\ submitted[1] = << [custom_id |-> "memo"], [custom_id |-> "letter"] >>

\* C14: the batch is submitted at most once in a run, and once it has been
\* submitted nothing is handed to the service again, whatever the outcomes
\* of its items.
C14_SubmittedOnceStep == submitted # <<>> => submitted' = submitted

C14_NoRetry == [][C14_SubmittedOnceStep]_vars /\ [](Len(submitted) <= 1)

C14_Witness ==
    /\ RanToEnd
    /\ Len(submitted) = 1
    /\ Len(results) = 2
    /\ results[1].type = "errored"
    /\ results[2].type = "succeeded" /\ results[2].content = <<>>
    /\ failed = 2

InPollLoop == pc \in {"poll", "sleep"}

\* wait_for_batch_completion has returned
Returned == pc \in {"fetch", "process"} \/ RanToEnd

\* C15, one step: a poll that sees "ended" returns with the batch it
\* retrieved and no wait follows; a poll that sees another status keeps the
\* loop going with one wait, after which comes the next poll; a wait only
\* ever follows such a poll.
C15_PollStep ==
    /\ (pc = "poll" /\ pc' # "poll") =>
          /\ batch'.processing_status = processing_status
          /\ pc' = IF processing_status = "ended" THEN "fetch" ELSE "sleep"
    /\ (pc = "sleep" /\ pc' # "sleep") => pc' = "poll"
    /\ (pc # "sleep" /\ pc' = "sleep") => (pc = "poll" /\ processing_status # "ended")
    /\ (~Returned /\ Returned') => (pc = "poll" /\ processing_status = "ended")

\* C15, every state: while waiting the latest poll saw a status other than
\* "ended"; once returned, the batch held is the one of a poll that saw
\* "ended".
C15_ReturnedBatchEnded ==
    /\ pc = "sleep" => batch.processing_status \in {"in_progress", "canceling"}
    /\ Returned => batch.processing_status = "ended"

C15_PollUntilEnded == [][C15_PollStep]_vars /\ []C15_ReturnedBatchEnded

C15_Witness ==
    /\ pc = "fetch"
    /\ batch.processing_status = "ended"
    /\ processing_status = "ended"
    /\ Len(service_results) = 2

\* C16, one step: the only way out of the poll loop is a poll made while the
\* batch is "ended"; while the batch is in any other status the loop goes on.
C16_NoOtherExit ==
    (InPollLoop /\ processing_status # "ended") => InPollLoop'

\* C16: once the batch is "ended" (it then stays so) a run that is in the
\* poll loop leaves it, and the loop has no other exit.
C16_LoopEndsIffBatchEnds ==
    /\ (InPollLoop /\ processing_status = "ended") ~> ~InPollLoop
    /\ [][processing_status = "ended" => processing_status' = "ended"]_vars
    /\ [][C16_NoOtherExit]_vars

C16_Witness ==
    /\ pc = "sleep"
    /\ processing_status = "ended"
    /\ batch.processing_status = "canceling"

\* the steps of main in their order
Rank(p) ==
    CASE p = "start" -> 0
      [] p = "prepare" -> 1
      [] p \in {"poll", "sleep"} -> 2
      [] p = "fetch" -> 3
      [] p = "process" -> 4
      [] OTHER -> 5

\* C17, one step: main never goes back to an earlier step; requests are
\* built only before the submission, the submission is made only when a
\* request is built for every input file, results are fetched only at the
\* fetch step, and files are written only in the loop over fetched results.
C17_OrderStep ==
    /\ Rank(pc') >= Rank(pc)
    /\ requests' # requests => (pc = "prepare" /\ submitted = <<>>)
    /\ submitted' # submitted => (pc = "prepare" /\ Len(requests) = Len(pdf_files)
                                                 /\ pc' = "poll")
    /\ results' # results => (pc = "fetch" /\ pc' = "process")
    /\ out_files' # out_files => (pc = "process" /\ results = service_results)

\* C17, every state: polling needs a submitted batch, and results are fetched
\* and files written only after a poll has seen the batch "ended".
C17_OrderState ==
    /\ Rank(pc) \in 2..4 => Len(submitted) = 1
    /\ (pc = "fetch" \/ results # <<>> \/ out_files # <<>>) =>
          /\ batch.processing_status = "ended"
          /\ Len(submitted) = 1
          /\ submitted[1] = requests

C17_StepOrder == [][C17_OrderStep]_vars /\ []C17_OrderState

C17_Witness ==
    /\ RanToEnd
    /\ Len(requests) = 2
    /\ submitted = <<requests>>
    /\ batch.processing_status = "ended"
    /\ results = service_results
    /\ Cardinality(DOMAIN out_files) = 2

\* str.find from an offset that may itself be a failed find
FindAfter(text, mark, from) == IF from = -1 THEN -1 ELSE find(text, mark, from)

\* a written text read as header and sections: the offsets of the line that
\* closes the header and of the five heading lines, each looked for after the
\* one before it, and the text each section holds up to the next heading
SectionsOf(text) ==
    LET h == IF startswith(text, "---\n") THEN find(text, "\n---\n", 3) ELSE -1
        o == FindAfter(text, "\n## Overview\n", h)
        i == FindAfter(text, "\n## Images\n", o)
        n == FindAfter(text, "\n## Notes\n", i)
        c == FindAfter(text, "\n## Connections\n", n)
        t == FindAfter(text, "\n## Transcription\n", c)
    IN  IF t = -1 THEN [ok |-> FALSE]
        ELSE [ok |-> TRUE,
              gap |-> Slice(text, h + 5, o + 1),
              overview |-> Slice(text, o + 13, i),
              images |-> Slice(text, i + 11, n),
              notes |-> Slice(text, n + 10, c),
              connections |-> Slice(text, c + 16, t),
              transcription |-> Slice(text, t + 18, Len(text))]

\* the metadata and body process_batch_results hands over for result r
HandedOver(r) == parse_claude_response(ResponseText(r.content))

\* text is a document for identifier id, overview value ov ("" for none) and
\* body b
IsDocumentOf(text, id, ov, b) ==
    LET S == SectionsOf(text)
    IN  /\ S.ok
        /\ AllWhitespace(S.gap)
        /\ IsTrimmed(ov, S.overview)
        /\ IsTrimmed("![[" \o id \o ".pdf]]", S.images)
        /\ AllWhitespace(S.notes)
        /\ AllWhitespace(S.connections)
        /\ S.transcription = "\n" \o b

\* C19: a step that writes or rewrites an output file leaves in
\* "<identifier>.md" a text made of the header block and then the sections
\* Overview, Images, Notes, Connections, Transcription in that order, where
\* Overview holds the overview value of the metadata (nothing when absent),
\* Images holds the embed of "<identifier>.pdf", Notes and Connections hold
\* nothing, and Transcription holds the body verbatim up to the end of file.
C19_WrittenDocument ==
    out_files' # out_files =>
        LET r == results[res_i + 1]
            m == HandedOver(r).metadata.m
        IN  /\ DOMAIN out_files' = DOMAIN out_files \cup {FileOf(r)}
            /\ IsDocumentOf(out_files'[FileOf(r)], r.custom_id,
                            IF "overview" \in DOMAIN m THEN m["overview"].s ELSE "",
                            HandedOver(r).transcription)

C19_DocumentLayout == [][C19_WrittenDocument]_vars

C19_Witness ==
    /\ RanToEnd
    /\ DOMAIN out_files = {"letter.md", "memo.md"}
    /\ LET S == SectionsOf(out_files["letter.md"])
           T == SectionsOf(out_files["memo.md"])
       IN  /\ S.ok /\ T.ok
           /\ S.overview = "\nA letter.\n"
           /\ S.images = "\n![[letter.pdf]]\n"
           /\ S.transcription = "\nDear Sir"
           /\ AllWhitespace(T.overview)
           /\ T.transcription = "\nNo metadata here.\n"

\* the document process_batch_results has written for result r
DocumentFor(r) ==
    create_obsidian_document(HandedOver(r).metadata, HandedOver(r).transcription,
                             r.custom_id \o ".pdf", today).text

\* j is the last of the results A that carries its identifier
LastOfItsId(A, j) ==
    \A k \in A : results[k].custom_id = results[j].custom_id => k <= j

\* C20: when the run has ended and two assembled results carry the same
\* identifier, both are counted as succeeded and none as failed, and the one
\* file "<identifier>.md" holds the document of the later of them.
C20_LaterOverwrites ==
    RanToEnd =>
        LET A == Assembled
        IN  \A i, j \in A :
                (i < j /\ results[i].custom_id = results[j].custom_id /\ LastOfItsId(A, j)) =>
                    /\ succeeded = Cardinality(A)
                    /\ failed = Len(results) - Cardinality(A)
                    /\ FileOf(results[j]) \in DOMAIN out_files
                    /\ out_files[FileOf(results[j])] = DocumentFor(results[j])

C20_Witness ==
    /\ RanToEnd
    /\ Len(results) = 2
    /\ Assembled = {1, 2}
    /\ results[1].custom_id = "letter" /\ results[2].custom_id = "letter"
    /\ DOMAIN out_files = {"letter.md"}
    /\ out_files["letter.md"] = DocumentFor(results[2])
    /\ out_files["letter.md"] # DocumentFor(results[1])
    /\ succeeded = 2 /\ failed = 0

\* the text blocks of a content, in order, and their texts put end to end
TextBlocks(content) == SelectSeq(content, LAMBDA b : b.type = "text")
TextsJoined(content) ==
    join("", [k \in 1..Len(TextBlocks(content)) |-> TextBlocks(content)[k].text])

\* C22, the loop step on a succeeded result r: with empty content only the
\* failed counter moves and no file is written; with content that holds no
\* text block (and a writable file) the succeeded counter moves and
\* "<identifier>.md" is the document of an empty text, no overview and an
\* empty body; in every case what is handed over for r is the split of its
\* text blocks' texts put end to end in order, other blocks left out.
C22_ContentStep ==
    (pc = "process" /\ res_i < Len(results) /\ res_i' = res_i + 1
     /\ results[res_i + 1].type = "succeeded") =>
        LET r == results[res_i + 1]
        IN  /\ r.content = <<>> =>
                  /\ failed' = failed + 1 /\ succeeded' = succeeded
                  /\ out_files' = out_files
            /\ (r.content # <<>> /\ TextBlocks(r.content) = <<>>
                 /\ r.custom_id \notin unwritable) =>
                  /\ succeeded' = succeeded + 1 /\ failed' = failed
                  /\ FileOf(r) \in DOMAIN out_files'
                  /\ IsDocumentOf(out_files'[FileOf(r)], r.custom_id, "", "")
            /\ r.content # <<>> =>
                  /\ HandedOver(r) = parse_claude_response(TextsJoined(r.content))
                  /\ succeeded' = succeeded + 1 =>
                        /\ FileOf(r) \in DOMAIN out_files'
                        /\ out_files'[FileOf(r)] =
                              create_obsidian_document(
                                  parse_claude_response(TextsJoined(r.content)).metadata,
                                  parse_claude_response(TextsJoined(r.content)).transcription,
                                  r.custom_id \o ".pdf", today).text

C22_EmptyAndTextlessContent == [][C22_ContentStep]_vars

C22_Witness ==
    /\ RanToEnd
    /\ Len(results) = 2
    /\ results[1].type = "succeeded" /\ results[1].content = <<>>
    /\ results[2].type = "succeeded" /\ results[2].content = <<OtherBlock>>
    /\ failed = 1 /\ succeeded = 1
    /\ DOMAIN out_files = {FileOf(results[2])}
    /\ SectionsOf(out_files[FileOf(results[2])]).transcription = "\n"

(***************************************************************************)
(* Properties of parse_source_from_path                                    *)
(***************************************************************************)
\* the path with its last k parts removed, and the last part of a path
Above(path, k) == [anchor |-> path.anchor,
                   names |-> SubSeq(path.names, 1, Len(path.names) - k)]
NameOf(path) == LET ps == parts_of(path) IN ps[Len(ps)]
PathText(path) == path.anchor \o join("/", path.names)

====
